---------------------------- MODULE Spec2Model ----------------------------
(***************************************************************************)
(* Model of scripts/fetch_schedule.py: the Radio Classics schedule         *)
(* fetcher.  main() fetches a page, finds and downloads a spreadsheet,     *)
(* parse_excel_schedule() turns the sheet into a week schedule and         *)
(* save_schedule() writes it.                                              *)
(*                                                                         *)
(* Cell texts are TLA+ strings and the Python string operations the code   *)
(* uses (lower, strip, startswith, in, replace, split, int, re.search,     *)
(* re.match) are modelled character by character on them.                  *)
(***************************************************************************)
EXTENDS Integers, Sequences, FiniteSets, TLC

VARIABLES
    pc,              \* position of main() / parse_excel_schedule()
    excel_data,      \* main: the downloaded file (a sheet, or Corrupt)
    ws,              \* parse_excel_schedule: the active worksheet
    header_row,      \* parse_excel_schedule: header_row (0 before step 1)
    day_columns,     \* parse_excel_schedule: {col_idx: day_name}
    et_column,       \* parse_excel_schedule: et_column (0 is None)
    time_blocks,     \* parse_excel_schedule: [(row, base_hour)]
    rows_per_block,  \* parse_excel_schedule: rows_per_block
    todo,            \* columns the step-6 loop has still to visit, in order
    columns,         \* per visited column: day_cells, joined_shows, slots and durations
    day_schedules,   \* parse_excel_schedule: {day_name: [slot]}
    schedule,        \* main: the schedule dict in hand
    saved,           \* the save_schedule calls so far: [schedule, written]
    raised,          \* str(e) of the exception parse_excel_schedule raised, or ""
    exit_code        \* return value of main (-1 while running)

vars == <<pc, excel_data, ws, header_row, day_columns, et_column, time_blocks,
          rows_per_block, todo, columns, day_schedules, schedule, saved, raised,
          exit_code>>

-----------------------------------------------------------------------------
(* Python str operations, character by character                           *)

UpperLetters == <<"A","B","C","D","E","F","G","H","I","J","K","L","M",
                  "N","O","P","Q","R","S","T","U","V","W","X","Y","Z">>
LowerLetters == <<"a","b","c","d","e","f","g","h","i","j","k","l","m",
                  "n","o","p","q","r","s","t","u","v","w","x","y","z">>
Digits == <<"0","1","2","3","4","5","6","7","8","9">>

RangeOf(seq) == {seq[i] : i \in 1..Len(seq)}

IndexIn(c, seq) == CHOOSE i \in 1..Len(seq) : seq[i] = c

UpperSet == RangeOf(UpperLetters)
LowerSet == RangeOf(LowerLetters)
DigitSet == RangeOf(Digits)

ToLower == [c \in UpperSet |-> LowerLetters[IndexIn(c, UpperLetters)]]
ToUpper == [c \in LowerSet |-> UpperLetters[IndexIn(c, LowerLetters)]]
DigitValue == [c \in DigitSet |-> IndexIn(c, Digits) - 1]

Char(s, i) == SubSeq(s, i, i)

IsDigit(c) == c \in DigitSet

\* str.islower() of one character
IsLowerChar(c) == c \in LowerSet

LowerChar(c) == IF c \in UpperSet THEN ToLower[c] ELSE c

UpperChar(c) == IF c \in LowerSet THEN ToUpper[c] ELSE c

RECURSIVE LowerFrom(_, _)
LowerFrom(s, i) == IF i > Len(s) THEN "" ELSE LowerChar(Char(s, i)) \o LowerFrom(s, i + 1)

RECURSIVE UpperFrom(_, _)
UpperFrom(s, i) == IF i > Len(s) THEN "" ELSE UpperChar(Char(s, i)) \o UpperFrom(s, i + 1)

\* s.lower(), s.upper()
str_lower(s) == LowerFrom(s, 1)
str_upper(s) == UpperFrom(s, 1)

RECURSIVE str_lstrip(_)
str_lstrip(s) == IF Len(s) > 0 /\ Char(s, 1) = " " THEN str_lstrip(SubSeq(s, 2, Len(s))) ELSE s

RECURSIVE str_rstrip(_)
str_rstrip(s) == IF Len(s) > 0 /\ Char(s, Len(s)) = " " THEN str_rstrip(SubSeq(s, 1, Len(s) - 1)) ELSE s

str_strip(s) == str_rstrip(str_lstrip(s))

str_startswith(s, p) == Len(p) <= Len(s) /\ SubSeq(s, 1, Len(p)) = p

\* p in s
str_contains(s, p) == \E i \in 1..(Len(s) - Len(p) + 1) : SubSeq(s, i, i + Len(p) - 1) = p

\* s.replace(old, ""), left to right, non-overlapping
RECURSIVE str_remove(_, _)
str_remove(s, old) ==
    IF Len(s) = 0 THEN ""
    ELSE IF str_startswith(s, old) THEN str_remove(SubSeq(s, Len(old) + 1, Len(s)), old)
    ELSE Char(s, 1) \o str_remove(SubSeq(s, 2, Len(s)), old)

\* s.split(sep) for a one-character separator
RECURSIVE str_split(_, _)
str_split(s, sep) ==
    IF ~str_contains(s, sep) THEN <<s>>
    ELSE LET i == CHOOSE k \in 1..Len(s) :
                     Char(s, k) = sep /\ \A j \in 1..(k - 1) : Char(s, j) # sep
         IN  <<SubSeq(s, 1, i - 1)>> \o str_split(SubSeq(s, i + 1, Len(s)), sep)

AllDigits(s) == Len(s) > 0 /\ \A i \in 1..Len(s) : IsDigit(Char(s, i))

RECURSIVE DigitsValue(_)
DigitsValue(s) == IF Len(s) = 0 THEN 0
                  ELSE 10 * DigitsValue(SubSeq(s, 1, Len(s) - 1)) + DigitValue[Char(s, Len(s))]

\* int(s): defined when, whitespace stripped, s is a run of digits; ValueError otherwise
int_ok(s) == AllDigits(str_strip(s))
int_of(s) == DigitsValue(str_strip(s))

\* str(n) for 0 <= n < 100, and f"{n:02d}"
str_of(n) == IF n < 10 THEN Digits[n + 1] ELSE Digits[(n \div 10) + 1] \o Digits[(n % 10) + 1]
str_02d(n) == Digits[(n \div 10) + 1] \o Digits[(n % 10) + 1]

\* k digits of s start at position i
DigitsAt(s, i, k) == i >= 1 /\ i + k - 1 <= Len(s) /\ \A j \in i..(i + k - 1) : IsDigit(Char(s, j))

DateSepAt(s, i) == i >= 1 /\ i <= Len(s) /\ Char(s, i) \in {"-", "/"}

\* re.search(r'\d{1,2}[-/]\d{1,2}[-/]\d{2,4}', s) is not None
has_date_pattern(s) ==
    \E i \in 1..Len(s) : \E a \in 1..2 : \E b \in 1..2 :
        /\ DigitsAt(s, i, a)
        /\ DateSepAt(s, i + a)
        /\ DigitsAt(s, i + a + 1, b)
        /\ DateSepAt(s, i + a + 1 + b)
        /\ DigitsAt(s, i + a + b + 2, 2)

-----------------------------------------------------------------------------
(* The pure helpers of fetch_schedule.py                                   *)

\* format_time_et with noon taken for a morning hour
format_time_noon_am(hour, minute) ==
    LET period == IF hour < 13 THEN "AM" ELSE "PM"
        display_hour == IF hour % 12 = 0 THEN 12 ELSE hour % 12
    IN  str_of(display_hour) \o ":" \o str_02d(minute) \o " " \o period

\* format_time_et(hour, minute): the '12:00 AM' style string
format_time_et(hour, minute) ==
    LET display_hour == IF hour = 0 THEN 12
                        ELSE IF hour < 12 THEN hour
                        ELSE IF hour = 12 THEN 12
                        ELSE hour - 12
        period == IF hour = 0 THEN "AM"
                  ELSE IF hour < 12 THEN "AM"
                  ELSE IF hour = 12 THEN "PM"
                  ELSE "PM"
    IN  str_of(display_hour) \o ":" \o str_02d(minute) \o " " \o period

\* re.match(r'(\d{1,2})\s*(am|pm)', s): <<matched, hour digits, period>>
AmPmMatch(s) ==
    LET Try(a) ==
            LET rest == str_lstrip(SubSeq(s, a + 1, Len(s)))
            IN  IF DigitsAt(s, 1, a) /\ (str_startswith(rest, "am") \/ str_startswith(rest, "pm"))
                THEN <<TRUE, SubSeq(s, 1, a), SubSeq(rest, 1, 2)>>
                ELSE <<FALSE, "", "">>
    IN  IF Try(2)[1] THEN Try(2) ELSE Try(1)

\* parse_time_value_to_hour(time_val): the hour, or -1 for None
parse_time_value_to_hour(time_val) ==
    IF time_val = "" THEN -1
    ELSE LET time_str == str_strip(str_lower(time_val))
             m == AmPmMatch(time_str)
         IN  IF str_contains(time_str, "mid") \/ time_str = "12am" THEN 0
             ELSE IF str_contains(time_str, "noon") \/ time_str = "12pm" THEN 12
             ELSE IF m[1]
                  THEN LET hour == DigitsValue(m[2])
                       IN  IF m[3] = "am"
                           THEN (IF hour # 12 THEN hour ELSE 0)
                           ELSE (IF hour = 12 THEN hour ELSE hour + 12)
                  ELSE -1

CONTINUATION_WORDS == <<"from ", "with ", "starring ", "featuring ", "hosted by ", "and ">>

HOUR_SHOWS == <<"lux radio", "screen director", "theatre guild", "screen guild">>

\* get_block_for_row: 0-based index of the first block whose range holds row, or -1
get_block_for_row(row, blocks, rpb) ==
    LET hits == {i \in 1..Len(blocks) : blocks[i][1] <= row /\ row < blocks[i][1] + rpb}
    IN  IF hits = {} THEN -1
        ELSE (CHOOSE i \in hits : \A j \in hits : i <= j) - 1

\* is_continuation(text, prev_text, row, prev_row, time_blocks, rows_per_block)
is_continuation(text, prev_text, row, prev_row, blocks, rpb) ==
    IF text = "" \/ prev_text = "" THEN FALSE
    ELSE IF get_block_for_row(row, blocks, rpb) # get_block_for_row(prev_row, blocks, rpb)
    THEN FALSE
    ELSE LET text_lower == str_strip(str_lower(text))
             has_date == has_date_pattern(text)
         IN  IF \E w \in RangeOf(CONTINUATION_WORDS) : str_startswith(text_lower, w) THEN TRUE
             ELSE IF IsLowerChar(Char(text, 1)) /\ ~has_date THEN TRUE
             ELSE IF /\ ~has_date
                     /\ ~\E x \in {"the ", "a ", "an "} : str_startswith(text_lower, x)
                     /\ ~has_date_pattern(prev_text)
                  THEN TRUE
                  ELSE FALSE

\* estimate_show_duration without the theme rule
estimate_without_theme(show_name) ==
    LET show_lower == str_lower(show_name)
        Has(p) == str_contains(show_lower, p)
    IN  IF Has("(1 hr)") \/ Has("(60 min)") \/ Has("(1 hour)") THEN 60
        ELSE IF Has("(1/2 hr)") \/ Has("(30 min)") THEN 30
        ELSE IF Has("(15 min)") THEN 15
        ELSE IF str_startswith(show_lower, "two from ") \/ Has("two episodes") THEN 60
        ELSE IF Has("two 1/2 hour") THEN 60
        ELSE IF \E show \in RangeOf(HOUR_SHOWS) : Has(show) THEN 60
        ELSE 30

\* estimate_show_duration with the theme rule consulted after the others
estimate_theme_last(show_name) ==
    LET show_lower == str_lower(show_name)
        Has(p) == str_contains(show_lower, p)
    IN  IF Has("(1 hr)") \/ Has("(60 min)") \/ Has("(1 hour)") THEN 60
        ELSE IF Has("(1/2 hr)") \/ Has("(30 min)") THEN 30
        ELSE IF Has("(15 min)") THEN 15
        ELSE IF str_startswith(show_lower, "two from ") \/ Has("two episodes") THEN 60
        ELSE IF Has("two 1/2 hour") THEN 60
        ELSE IF \E show \in RangeOf(HOUR_SHOWS) : Has(show) THEN 60
        ELSE IF str_startswith(show_lower, "[theme]") THEN 0
        ELSE 30

\* estimate_show_duration(show_name), in minutes
estimate_show_duration(show_name) ==
    LET show_lower == str_lower(show_name)
        Has(p) == str_contains(show_lower, p)
    IN  IF str_startswith(show_lower, "[theme]") THEN 0
        ELSE IF Has("(1 hr)") \/ Has("(60 min)") \/ Has("(1 hour)") THEN 60
        ELSE IF Has("(1/2 hr)") \/ Has("(30 min)") THEN 30
        ELSE IF Has("(15 min)") THEN 15
        ELSE IF str_startswith(show_lower, "two from ") \/ Has("two episodes") THEN 60
        ELSE IF Has("two 1/2 hour") THEN 60
        ELSE IF \E show \in RangeOf(HOUR_SHOWS) : Has(show) THEN 60
        ELSE 30

THEME_KEYWORDS == <<"birthday", "marathon", "when radio was", "tribute",
                    "anniversary", "salute", "celebration", "memorial">>

\* is_theme_header(show_name, is_bold)
is_theme_header(show_name, is_bold) ==
    /\ is_bold
    /\ ~has_date_pattern(show_name)
    /\ LET lower == str_lower(show_name)
       IN  \E kw \in RangeOf(THEME_KEYWORDS) : str_contains(lower, kw)

\* lines 608-614: 24-hour conversion of the parsed numbers
SortMinutes(is_pm, hours, minutes) ==
    (IF is_pm /\ hours # 12 THEN hours + 12
     ELSE IF (~is_pm) /\ hours = 12 THEN 0
     ELSE hours) * 60 + minutes

\* lines 604-606 and the except branch: int() of the parts, 0 on ValueError
SortParts(is_pm, parts) ==
    IF ~int_ok(parts[1]) \/ (Len(parts) > 1 /\ ~int_ok(parts[2])) THEN 0
    ELSE SortMinutes(is_pm, int_of(parts[1]), IF Len(parts) > 1 THEN int_of(parts[2]) ELSE 0)

\* lines 601-604, on the upper-cased, stripped string
SortUpper(upper) ==
    SortParts(str_contains(upper, "PM"),
              str_split(str_strip(str_remove(str_remove(upper, "AM"), "PM")), ":"))

\* parse_time_for_sort(time_str): minutes since midnight, 0 on ValueError
parse_time_for_sort(time_str) == SortUpper(str_strip(str_upper(time_str)))

-----------------------------------------------------------------------------
(* The worksheet: a sparse grid, <<row, column>> -> cell                   *)

EmptyCell == [value |-> "", bold |-> FALSE]

\* ws.cell(row, column): value and font.bold
Cell(w, r, c) == IF <<r, c>> \in DOMAIN w THEN w[<<r, c>>] ELSE EmptyCell

SetMax(S) == CHOOSE x \in S : \A y \in S : y <= x

\* ws.max_column
max_column(w) == IF DOMAIN w = {} THEN 1 ELSE SetMax({p[2] : p \in DOMAIN w})

\* ws.max_row
max_row(w) == IF DOMAIN w = {} THEN 1 ELSE SetMax({p[1] : p \in DOMAIN w})

-----------------------------------------------------------------------------
(* find_header_row, find_et_column, detect_time_blocks                     *)

MaxHeaderRows == 20
MaxBlockScanRows == 100
DefaultRowsPerBlock == 5
DefaultBlockCount == 12

day_names == <<"monday", "tuesday", "wednesday", "thursday", "friday", "saturday", "sunday">>

\* day.capitalize()
capitalize(s) == IF Len(s) = 0 THEN "" ELSE UpperChar(Char(s, 1)) \o str_lower(SubSeq(s, 2, Len(s)))

\* the first day name of day_names contained in the cell text, "" when none
DayIn(cell_val) ==
    LET cell_str == str_strip(str_lower(cell_val))
        hits == {i \in 1..Len(day_names) : str_contains(cell_str, day_names[i])}
    IN  IF cell_val = "" \/ hits = {} THEN ""
        ELSE capitalize(day_names[CHOOSE i \in hits : \A j \in hits : i <= j])

\* the day_columns dict built for one row
RowDayColumns(w, row_idx) ==
    LET cols == {c \in 1..max_column(w) : DayIn(Cell(w, row_idx, c).value) # ""}
    IN  [c \in cols |-> DayIn(Cell(w, row_idx, c).value)]

\* lines 362-365: the row is the header when it has at least 5 day columns
HeaderResult(row_idx, cols) ==
    IF Cardinality(DOMAIN cols) >= 5
    THEN [found |-> TRUE, row |-> row_idx, day_columns |-> cols]
    ELSE [found |-> FALSE, row |-> 0, day_columns |-> <<>>]

\* the loop of find_header_row from row_idx on
RECURSIVE HeaderFrom(_, _, _)
HeaderFrom(w, row_idx, max_rows) ==
    IF row_idx > max_rows THEN [found |-> FALSE, row |-> 0, day_columns |-> <<>>]
    ELSE IF HeaderResult(row_idx, RowDayColumns(w, row_idx)).found
    THEN HeaderResult(row_idx, RowDayColumns(w, row_idx))
    ELSE HeaderFrom(w, row_idx + 1, max_rows)

\* find_header_row looking one row further than max_rows
find_header_row_further(w, max_rows) == HeaderFrom(w, 1, max_rows + 1)

\* find_header_row(ws, max_rows): [found, row, day_columns]
find_header_row(w, max_rows) == HeaderFrom(w, 1, max_rows)

\* find_et_column(ws, header_row): the column, or 0 for None
find_et_column(w, hrow) ==
    LET IsEt(c) == LET v == Cell(w, hrow, c).value
                       cell_str == str_strip(str_upper(v))
                   IN  v # "" /\ (cell_str = "ET" \/ str_contains(cell_str, "EASTERN"))
        hits == {c \in 1..max_column(w) : IsEt(c)}
    IN  IF hits = {} THEN 0 ELSE CHOOSE c \in hits : \A d \in hits : c <= d

\* detect_time_blocks(ws, et_column, start_row, max_rows): [(row, hour)]
detect_time_blocks(w, et_col, start_row, max_rows) ==
    LET IsAnchor(r) == /\ Cell(w, r, et_col).value # ""
                       /\ parse_time_value_to_hour(Cell(w, r, et_col).value) # -1
        rows == {r \in start_row..(start_row + max_rows - 1) : IsAnchor(r)}
        RECURSIVE Ordered(_)
        Ordered(S) == IF S = {} THEN <<>>
                      ELSE LET r == CHOOSE x \in S : \A y \in S : x <= y
                           IN  <<<<r, parse_time_value_to_hour(Cell(w, r, et_col).value)>>>>
                               \o Ordered(S \ {r})
    IN  Ordered(rows)

\* synthetic blocks one hour apart
DefaultHourlyBlocks(data_start_row) ==
    [i \in 1..DefaultBlockCount |->
        <<data_start_row + (i - 1) * DefaultRowsPerBlock, i - 1>>]

\* the synthetic blocks of step 4's else branch
DefaultTimeBlocks(data_start_row) ==
    [i \in 1..DefaultBlockCount |->
        <<data_start_row + (i - 1) * DefaultRowsPerBlock, (i - 1) * 2>>]

-----------------------------------------------------------------------------
(* parse_excel_schedule, steps 6 to 8, for one day column                  *)

PLACEHOLDERS == {"none", "n/a", "-", ""}

\* step 6: the day_cells list of one column, block by block, row by row
CollectDayCells(w, col_idx, blocks, rpb) ==
    LET n == Len(blocks) * rpb
        At(k) == LET block_idx == (k - 1) \div rpb
                     slot_idx == (k - 1) % rpb
                     row_num == blocks[block_idx + 1][1] + slot_idx
                     c == Cell(w, row_num, col_idx)
                 IN  [row |-> row_num, value |-> str_strip(c.value), bold |-> c.bold,
                      block_idx |-> block_idx, base_hour |-> blocks[block_idx + 1][2]]
        Keep(e) == e.value # "" /\ str_lower(e.value) \notin PLACEHOLDERS
    IN  SelectSeq([k \in 1..n |-> At(k)], Keep)

\* the inner while loop of step 7: the index after the last cell absorbed
RECURSIVE LookAhead(_, _, _, _)
LookAhead(day_cells, j, blocks, rpb) ==
    IF j <= Len(day_cells)
       /\ is_continuation(day_cells[j].value, day_cells[j - 1].value, day_cells[j].row,
                          day_cells[j - 1].row, blocks, rpb)
    THEN LookAhead(day_cells, j + 1, blocks, rpb)
    ELSE j

\* ' '.join(show_parts) for day_cells[i .. j-1]
RECURSIVE JoinParts(_, _, _)
JoinParts(day_cells, i, j) ==
    IF i + 1 >= j THEN day_cells[i].value
    ELSE day_cells[i].value \o " " \o JoinParts(day_cells, i + 1, j)

\* lines 515-520: the joined name, theme-prefixed when is_theme_header says so
ShowName(joined, is_bold) ==
    IF is_theme_header(joined, is_bold) THEN "[THEME] " \o joined ELSE joined

\* step 7: joined_shows.  first/last are the indices i and j-1 of the cells
\* joined (show_parts), kept to state what an entry absorbed.
RECURSIVE JoinContinuations(_, _, _, _)
JoinContinuations(day_cells, i, blocks, rpb) ==
    IF i > Len(day_cells) THEN <<>>
    ELSE LET current == day_cells[i]
             j == LookAhead(day_cells, i + 1, blocks, rpb)
             show_name == ShowName(JoinParts(day_cells, i, j), current.bold)
         IN  <<[show |-> show_name, block_idx |-> current.block_idx,
                base_hour |-> current.base_hour, start_row |-> current.row,
                first |-> i, last |-> j - 1]>>
             \o JoinContinuations(day_cells, j, blocks, rpb)

\* the keys of the blocks dict of step 8, in insertion order
RECURSIVE BlockKeys(_)
BlockKeys(joined_shows) ==
    IF joined_shows = <<>> THEN <<>>
    ELSE LET rest == BlockKeys(SubSeq(joined_shows, 1, Len(joined_shows) - 1))
             b == joined_shows[Len(joined_shows)].block_idx
         IN  IF b \in RangeOf(rest) THEN rest ELSE Append(rest, b)

\* lines 549-561: the slot appended for one show at the cursor, and the
\* duration estimated for it
Allocation(show_name, current_minutes, duration) ==
    [slot |-> [time |-> format_time_et((current_minutes \div 60) % 24, current_minutes % 60),
               show |-> show_name, episode |-> ""],
     duration |-> duration]

\* lines 548-561: the shows of one block, from the cursor current_minutes on
RECURSIVE BlockSlots(_, _)
BlockSlots(block_shows, current_minutes) ==
    IF block_shows = <<>> THEN <<>>
    ELSE LET a == Allocation(Head(block_shows).show, current_minutes,
                             estimate_show_duration(Head(block_shows).show))
         IN  <<a>> \o BlockSlots(Tail(block_shows), current_minutes + a.duration)

\* step 8 with one cursor for the whole column, started at the first block
RECURSIVE AllocateOneCursor(_, _)
AllocateOneCursor(joined_shows, keys) ==
    IF keys = <<>> THEN <<>>
    ELSE LET InBlock(e) == e.block_idx = Head(keys)
             block_shows == SelectSeq(joined_shows, InBlock)
         IN  BlockSlots(block_shows, joined_shows[1].base_hour * 60)
             \o AllocateOneCursor(joined_shows, Tail(keys))

\* step 8: what one column appends to its day, block by block
RECURSIVE AllocateTimes(_, _)
AllocateTimes(joined_shows, keys) ==
    IF keys = <<>> THEN <<>>
    ELSE LET InBlock(e) == e.block_idx = Head(keys)
             block_shows == SelectSeq(joined_shows, InBlock)
         IN  BlockSlots(block_shows, block_shows[1].base_hour * 60)
             \o AllocateTimes(joined_shows, Tail(keys))

\* sorted(slots, key=parse_time_for_sort(time)): stable insertion sort
RECURSIVE sorted_slots(_)
sorted_slots(slots) ==
    IF slots = <<>> THEN <<>>
    ELSE LET rest == sorted_slots(SubSeq(slots, 1, Len(slots) - 1))
             x == slots[Len(slots)]
             k == parse_time_for_sort(x.time)
             before == {i \in 1..Len(rest) : parse_time_for_sort(rest[i].time) <= k}
             n == Cardinality(before)
         IN  SubSeq(rest, 1, n) \o <<x>> \o SubSeq(rest, n + 1, Len(rest))

WEEK == <<"Sunday", "Monday", "Tuesday", "Wednesday", "Thursday", "Friday", "Saturday">>

\* the "schedule" list with every day of the week, visited or not
RECURSIVE BuildWeek(_, _)
BuildWeek(schedules, k) ==
    IF k > Len(WEEK) THEN <<>>
    ELSE <<[day |-> WEEK[k], date |-> "",
            slots |-> IF WEEK[k] \in DOMAIN schedules THEN sorted_slots(schedules[WEEK[k]])
                      ELSE <<>>]>>
         \o BuildWeek(schedules, k + 1)

\* lines 581-590: the "schedule" list, Sunday first, days of day_schedules only
RECURSIVE BuildDays(_, _)
BuildDays(schedules, k) ==
    IF k > Len(WEEK) THEN <<>>
    ELSE (IF WEEK[k] \in DOMAIN schedules
          THEN <<[day |-> WEEK[k], date |-> "", slots |-> sorted_slots(schedules[WEEK[k]])]>>
          ELSE <<>>)
         \o BuildDays(schedules, k + 1)

\* lines 574-579: the schedule_data dict
schedule_data(week, days) ==
    [week_start |-> week[1], week_end |-> week[2], last_updated |-> "now", schedule |-> days]

\* create_default_schedule(), with the error text main() then sets
create_default_schedule(error) ==
    [week_start |-> "this week's Sunday", week_end |-> "this week's Saturday",
     last_updated |-> "now",
     schedule |-> [k \in 1..Len(WEEK) |-> [day |-> WEEK[k], date |-> "", slots |-> <<>>]],
     error |-> error]

-----------------------------------------------------------------------------
(* extract_date_range                                                      *)

DateScanRows == 10

IsLetter(c) == c \in UpperSet \/ c \in LowerSet

\* the index after the run of letters that starts at i
RECURSIVE LetterRunEnd(_, _)
LetterRunEnd(s, i) == IF i <= Len(s) /\ IsLetter(Char(s, i)) THEN LetterRunEnd(s, i + 1) ELSE i

\* the index after the run of whitespace that starts at i
RECURSIVE SpaceRunEnd(_, _)
SpaceRunEnd(s, i) == IF i <= Len(s) /\ Char(s, i) = " " THEN SpaceRunEnd(s, i + 1) ELSE i

\* \d{1,2} at i: the number of digits taken (2 before 1), 0 when none
Digits12(s, i) == IF DigitsAt(s, i, 2) THEN 2 ELSE IF DigitsAt(s, i, 1) THEN 1 ELSE 0

\* (?:st|nd|rd|th)? at i: the index after it
AfterSuffix(s, i) ==
    IF i + 1 <= Len(s) /\ str_lower(SubSeq(s, i, i + 1)) \in {"st", "nd", "rd", "th"}
    THEN i + 2 ELSE i

NoTextDate == <<FALSE, "", "", "", "", "">>

\* text_date_pattern matched at position i: <<ok, g1, g2, g3, g4, g5>>.  Each
\* step takes the index reached so far and the groups matched so far.
TextDateYear(s, b5, g) ==                          \* (\d{4})
    IF DigitsAt(s, b5, 4) THEN <<TRUE>> \o g \o <<SubSeq(s, b5, b5 + 3)>> ELSE NoTextDate

TextDateComma(s, x4, g) ==                         \* ,?\s*
    TextDateYear(s, SpaceRunEnd(s, IF x4 <= Len(s) /\ Char(s, x4) = "," THEN x4 + 1 ELSE x4), g)

TextDateDay2(s, s3, n4, g) ==                      \* (\d{1,2})(?:st|nd|rd|th)?
    IF n4 > 0 THEN TextDateComma(s, AfterSuffix(s, s3 + n4), g \o <<SubSeq(s, s3, s3 + n4 - 1)>>)
    ELSE NoTextDate

TextDateGap2(s, e3, s3, g) ==                      \* \s+
    IF s3 > e3 THEN TextDateDay2(s, s3, Digits12(s, s3), g) ELSE NoTextDate

TextDateMonth2(s, b3, e3, g) ==                    \* ([A-Za-z]+)
    IF e3 > b3 THEN TextDateGap2(s, e3, SpaceRunEnd(s, e3), g \o <<SubSeq(s, b3, e3 - 1)>>)
    ELSE NoTextDate

TextDateDash(s, x2, g) ==                          \* [-]\s*
    IF x2 <= Len(s) /\ Char(s, x2) = "-"
    THEN TextDateMonth2(s, SpaceRunEnd(s, x2 + 1), LetterRunEnd(s, SpaceRunEnd(s, x2 + 1)), g)
    ELSE NoTextDate

TextDateDay1(s, s1, n2, g) ==                      \* (\d{1,2})(?:st|nd|rd|th)?\s*
    IF n2 > 0
    THEN TextDateDash(s, SpaceRunEnd(s, AfterSuffix(s, s1 + n2)), g \o <<SubSeq(s, s1, s1 + n2 - 1)>>)
    ELSE NoTextDate

TextDateGap1(s, e1, s1, g) ==                      \* \s+
    IF s1 > e1 THEN TextDateDay1(s, s1, Digits12(s, s1), g) ELSE NoTextDate

TextDateMonth1(s, i, e1) ==                        \* ([A-Za-z]+)
    IF e1 > i THEN TextDateGap1(s, e1, SpaceRunEnd(s, e1), <<SubSeq(s, i, e1 - 1)>>)
    ELSE NoTextDate

TextDateAt(s, i) == TextDateMonth1(s, i, LetterRunEnd(s, i))

\* text_date_pattern.search(val): the leftmost match, from position i on
RECURSIVE TextDateFrom(_, _)
TextDateFrom(s, i) ==
    IF i > Len(s) THEN NoTextDate
    ELSE IF IsLetter(Char(s, i)) /\ TextDateAt(s, i)[1] THEN TextDateAt(s, i)
    ELSE TextDateFrom(s, i + 1)

TextDateSearch(s) == TextDateFrom(s, 1)

\* \d{2,4} at p: the number of digits taken, 0 when fewer than two
Digits24(s, p) == IF DigitsAt(s, p, 4) THEN 4 ELSE IF DigitsAt(s, p, 3) THEN 3
                  ELSE IF DigitsAt(s, p, 2) THEN 2 ELSE 0

NumericDateYear(s, i, a, b, c) ==
    IF c > 0 THEN <<a + b + c + 2, SubSeq(s, i, i + a - 1), SubSeq(s, i + a + 1, i + a + b),
                    SubSeq(s, i + a + b + 2, i + a + b + c + 1)>>
    ELSE <<0, "", "", "">>

NumericDateDay(s, i, a, b) ==
    IF b > 0 /\ DateSepAt(s, i + a + b + 1)
    THEN NumericDateYear(s, i, a, b, Digits24(s, i + a + b + 2))
    ELSE <<0, "", "", "">>

NumericDateMonth(s, i, a) ==
    IF a > 0 /\ DateSepAt(s, i + a) THEN NumericDateDay(s, i, a, Digits12(s, i + a + 1))
    ELSE <<0, "", "", "">>

\* numeric_date_pattern matched at position i: <<length, g1, g2, g3>>, length 0 when not
NumericDateAt(s, i) == NumericDateMonth(s, i, Digits12(s, i))

\* numeric_date_pattern.findall(val) from position i on
RECURSIVE NumericDateFindAll(_, _)
NumericDateFindAll(s, i) ==
    IF i > Len(s) THEN <<>>
    ELSE LET m == NumericDateAt(s, i)
         IN  IF m[1] > 0 THEN <<<<m[2], m[3], m[4]>>>> \o NumericDateFindAll(s, i + m[1])
             ELSE NumericDateFindAll(s, i + 1)

MONTH_NAMES == <<<<"jan", "january">>, <<"feb", "february">>, <<"mar", "march">>,
                 <<"apr", "april">>, <<"may">>, <<"jun", "june">>, <<"jul", "july">>,
                 <<"aug", "august">>, <<"sep", "sept", "september">>, <<"oct", "october">>,
                 <<"nov", "november">>, <<"dec", "december">>>>

\* MONTHS.get(name, 1)
MonthOf(name) ==
    LET hits == {m \in 1..Len(MONTH_NAMES) : name \in RangeOf(MONTH_NAMES[m])}
    IN  IF hits = {} THEN 1 ELSE CHOOSE m \in hits : TRUE

\* str(n) of a natural number
RECURSIVE int_str(_)
int_str(n) == IF n < 10 THEN Digits[n + 1] ELSE int_str(n \div 10) \o Digits[(n % 10) + 1]

\* f"{year}-{month:02d}-{day:02d}"
IsoDate(year, month, day) ==
    int_str(year) \o "-" \o (IF month < 10 THEN "0" ELSE "") \o int_str(month)
                  \o "-" \o (IF day < 10 THEN "0" ELSE "") \o int_str(day)

NoDates == <<FALSE, "", "">>

\* int(year), two-digit years taken as 20xx
NumericYear(y) == IF DigitsValue(y) < 100 THEN DigitsValue(y) + 2000 ELSE DigitsValue(y)

NumericIsoDate(m) == IsoDate(NumericYear(m[3]), DigitsValue(m[1]), DigitsValue(m[2]))

\* lines 677-694: the numeric pattern, at least two matches in the cell
NumericDateRange(matches) ==
    IF Len(matches) >= 2 THEN <<TRUE, NumericIsoDate(matches[1]), NumericIsoDate(matches[2])>>
    ELSE NoDates

\* lines 659-674: the text pattern; lines 677-694 when it does not match
TextDateRange(val, t) ==
    IF t[1]
    THEN <<TRUE, IsoDate(DigitsValue(t[6]), MonthOf(str_lower(t[2])), DigitsValue(t[3])),
                 IsoDate(DigitsValue(t[6]), MonthOf(str_lower(t[4])), DigitsValue(t[5]))>>
    ELSE NumericDateRange(NumericDateFindAll(val, 1))

\* the dates of one cell with the numeric pattern tried before the text one
CellDateNumericFirst(val) ==
    IF val = "" THEN NoDates
    ELSE IF NumericDateRange(NumericDateFindAll(val, 1))[1]
    THEN NumericDateRange(NumericDateFindAll(val, 1))
    ELSE TextDateRange(val, TextDateSearch(val))

\* the dates one cell yields: <<found, start_date, end_date>>
CellDateRange(val) == IF val = "" THEN NoDates ELSE TextDateRange(val, TextDateSearch(val))

\* the cells of rows 1..DateScanRows that yield dates
DateCells(w) == {p \in DOMAIN w : p[1] <= DateScanRows /\ CellDateRange(w[p].value)[1]}

\* the first of them in iter_rows order (row by row, left to right)
FirstCell(hits) ==
    CHOOSE x \in hits : \A y \in hits : x[1] < y[1] \/ (x[1] = y[1] /\ x[2] <= y[2])

\* extract_date_range(ws): <<week_start, week_end>>
extract_date_range(w) ==
    IF DateCells(w) = {} THEN <<"this week's Monday", "this week's Sunday">>
    ELSE SubSeq(CellDateRange(w[FirstCell(DateCells(w))].value), 2, 3)

-----------------------------------------------------------------------------
(* The spreadsheets main() may download                                    *)

MaxCells == 3     \* cells per day column of the data sheets

Text(t) == [value |-> t, bold |-> FALSE]
Bold(t) == [value |-> t, bold |-> TRUE]

\* the cells of row r, from column 1 on ("" leaves the cell empty)
RowOf(r, texts) ==
    [p \in {<<r, c>> : c \in {k \in 1..Len(texts) : texts[k] # ""}} |-> Text(texts[p[2]])]

\* the cells of column c, from row r0 down
ColOf(c, r0, cells) ==
    [p \in {<<r0 + k - 1, c>> : k \in {i \in 1..Len(cells) : cells[i].value # ""}}
        |-> cells[p[1] - r0 + 1]]

RECURSIVE RowsFrom(_, _)
RowsFrom(r, rows) == IF rows = <<>> THEN <<>> ELSE RowOf(r, Head(rows)) @@ RowsFrom(r + 1, Tail(rows))

\* header rows at hr.., then the ET labels in column 1, the cells of column 2
\* from `first` rows below the first data row, and the cells of column 3
Sheet(hr, heads, et, first, cells, other) ==
    LET d == hr + Len(heads)
    IN  RowsFrom(hr, heads)
        @@ ColOf(1, d, [k \in 1..Len(et) |-> Text(et[k])])
        @@ ColOf(2, d + first, cells) @@ ColOf(3, d, other)

Head7 == <<"ET", "MONDAY", "TUESDAY", "WEDNESDAY", "THURSDAY", "FRIDAY", "SATURDAY", "SUNDAY">>
Head5 == <<"ET", "Monday", "Tuesday", "Wednesday", "Thursday", "Friday">>
Head4 == <<"ET", "Monday", "Tuesday", "Wednesday", "Thursday">>
HeadDup == <<"ET", "Monday", "Tuesday", "Wednesday", "Thursday", "Thursday">>
HeadNoEt == <<"Time", "Mon (Monday)", "Tuesday", "Wednesday", "Thursday", "Friday">>
HeadEastern == <<"Eastern Time", "Sunday", "Monday", "Tuesday", "Wednesday", "Thursday", "Friday">>

HeaderStacks == {<<Head7>>, <<Head5>>, <<Head4>>, <<Head4, Head7>>, <<Head5, Head7>>,
                 <<HeadDup>>, <<HeadNoEt>>, <<HeadEastern>>}

HeaderRows == {1, 19, 20, 21}

\* ET column contents below the header
EtRegular == <<"8am", "", "", "10am">>            \* blocks of 3 rows
EtCloser == <<"8am", "", "10am", "12noon">>       \* third anchor closer than the first gap
EtFurther == <<"8am", "", "10am", "", "", "2pm">> \* third anchor further than the first gap
EtMidnight == <<"10pm", "", "12mid", "", "2 AM">> \* blocks of 2 rows running over midnight
EtOne == <<"8am">>                                \* one anchor
EtNone == <<"Time">>                              \* no anchor
EtStacked == <<"2am", "", "", "4am", "6am", "8am">>  \* anchors on consecutive rows

EtBeyond == <<"8am", "", "13pm">>                  \* a label past twelve o'clock

EtColumns == {EtRegular, EtCloser, EtFurther, EtMidnight, EtOne, EtNone, EtBeyond}

DataEtColumns == {EtRegular, EtCloser, EtFurther}

FirstRows == {0, 1, 2}

CellChoices == {Text("The Shadow"), Text("starring Orson Welles"), Text("12-25-1945"),
                Bold("Birthday Salute"), Text("Dragnet")}

CellSeqs == UNION {[1..n -> CellChoices] : n \in 1..MaxCells}

ThemeColumn == <<Bold("Birthday Salute"), Text("Dragnet"), Text("Sam Spade")>>

OtherColumn == <<Text("N/A"), Text("Suspense (15 min)")>>

\* sheets that vary the header rows and the ET column over fixed day cells
HeaderSheets == {Sheet(hr, heads, et, 0, ThemeColumn, OtherColumn) :
                    hr \in HeaderRows, heads \in HeaderStacks, et \in EtColumns}

\* sheets that vary the cells of a day column under a fixed header
DataSheets == {Sheet(1, <<Head5>>, p[1], p[2], p[3], OtherColumn) :
                  p \in DataEtColumns \X FirstRows \X CellSeqs}

\* sheets whose blocks of 3 rows start on consecutive rows
StackedSheets == {Sheet(1, <<Head5>>, EtStacked, first, ThemeColumn, OtherColumn) : first \in 3..5}

Sheets == HeaderSheets \cup DataSheets \cup StackedSheets

\* names built of the cues the duration rules look for
DurationPrefixes == {"", "Two From ", "[Theme] "}
DurationTitles == {"Suspense", "Lux Radio Theatre", "Birthday Salute", "Two Episodes Of Gunsmoke",
                   "Two 1/2 Hour Shows"}
DurationMarkers == {"", " (1 hr)", " (60 min)", " (1 Hour)", " (1/2 hr)", " (30 min)", " (15 min)"}
DurationNames == {p[1] \o p[2] \o p[3] \o p[4] :
                     p \in DurationPrefixes \X DurationTitles \X DurationMarkers \X {"", " (1 hr)"}}

\* sheets with one cell, bold or not, in the day column
DurationSheets == {Sheet(1, <<Head5>>, EtRegular, 0, <<[value |-> name, bold |-> is_bold]>>, OtherColumn) :
                      name \in DurationNames, is_bold \in BOOLEAN}

\* what the cells above the header may read
TitleTexts == {"", "Radio Classics", "12-25-1945",
               "Jan 19th - Jan 25th, 2026", "January 26 - February 1, 2026",
               "2/2/2026 - 2/8/2026", "3-9-26 - 3-15-26",
               "Week 2/2/2026 - 2/8/2026 (Feb 2nd - Feb 8th, 2027)"}

TitleRows == {1, 10}

\* sheets with cells at (t, 1), (t, 2) and (t + 1, 1) above a header in row 12
DateSheets == {RowsFrom(p[1], <<<<p[2], p[3]>>, <<p[4]>>>>)
               @@ Sheet(12, <<Head5>>, EtRegular, 0, ThemeColumn, OtherColumn) :
                  p \in TitleRows \X TitleTexts \X TitleTexts \X TitleTexts}

-----------------------------------------------------------------------------
(* main() and parse_excel_schedule() as a state machine                    *)

Init ==
    /\ pc = "fetch"
    /\ excel_data = [kind |-> "none"]
    /\ ws = <<>>
    /\ header_row = 0
    /\ day_columns = <<>>
    /\ et_column = 0
    /\ time_blocks = <<>>
    /\ rows_per_block = 0
    /\ todo = <<>>
    /\ columns = <<>>
    /\ day_schedules = <<>>
    /\ schedule = <<>>
    /\ saved = <<>>
    /\ raised = ""
    /\ exit_code = -1

parse_vars == <<ws, header_row, day_columns, et_column, time_blocks, rows_per_block,
                todo, columns, day_schedules>>

\* save_schedule(schedule, OUTPUT_PATH): the write succeeds or raises IOError
save_schedule(sch, written) == saved' = Append(saved, [schedule |-> sch, written |-> written])

\* a failure branch that returns 0
FailQuietly(error) ==
    /\ schedule' = create_default_schedule(error)
    /\ \E written \in BOOLEAN : save_schedule(schedule', written)
    /\ exit_code' = 0
    /\ pc' = "done"

\* the failure branches of main(): default schedule, error text, save, return 1
FailWith(error) ==
    /\ schedule' = create_default_schedule(error)
    /\ \E written \in BOOLEAN : save_schedule(schedule', written)
    /\ exit_code' = 1
    /\ pc' = "done"

\* main, step 1: fetch_page
FetchPage ==
    /\ pc = "fetch"
    /\ \E html_ok \in BOOLEAN :
          IF html_ok
          THEN pc' = "find_url" /\ UNCHANGED <<schedule, saved, exit_code>>
          ELSE FailWith("Could not fetch schedule source page")
    /\ UNCHANGED <<excel_data, raised>>
    /\ UNCHANGED parse_vars

\* main, step 2: find_excel_url
FindExcelUrl ==
    /\ pc = "find_url"
    /\ \E url_found \in BOOLEAN :
          IF url_found
          THEN pc' = "download" /\ UNCHANGED <<schedule, saved, exit_code>>
          ELSE FailWith("Could not find schedule file")
    /\ UNCHANGED <<excel_data, raised>>
    /\ UNCHANGED parse_vars

\* main, step 3: download_excel; the bytes are a workbook or not one
DownloadExcel(sheets) ==
    /\ pc = "download"
    /\ \/ /\ \E s \in sheets : excel_data' = [kind |-> "xlsx", sheet |-> s]
          /\ pc' = "parse"
          /\ UNCHANGED <<schedule, saved, exit_code>>
       \/ /\ excel_data' = [kind |-> "corrupt"]
          /\ pc' = "parse"
          /\ UNCHANGED <<schedule, saved, exit_code>>
       \/ /\ FailWith("Could not download schedule file")
          /\ UNCHANGED excel_data
    /\ UNCHANGED raised
    /\ UNCHANGED parse_vars

\* parse_excel_schedule: load_workbook and step 1
FindHeaderRow ==
    /\ pc = "parse"
    /\ IF excel_data.kind = "corrupt"
       THEN /\ raised' = "File is not a zip file"
            /\ pc' = "except"
            /\ UNCHANGED <<ws, header_row, day_columns>>
       ELSE LET header_result == find_header_row(excel_data.sheet, MaxHeaderRows)
            IN  /\ ws' = excel_data.sheet
                /\ IF header_result.found
                   THEN /\ header_row' = header_result.row
                        /\ day_columns' = header_result.day_columns
                        /\ pc' = "blocks"
                        /\ UNCHANGED raised
                   ELSE /\ raised' = "Could not find header row with day names (MONDAY, TUESDAY, etc.)"
                        /\ pc' = "except"
                        /\ UNCHANGED <<header_row, day_columns>>
    /\ UNCHANGED <<excel_data, et_column, time_blocks, rows_per_block, todo, columns,
                   day_schedules, schedule, saved, exit_code>>

\* the keys of a dict with integer keys, ascending (the insertion order)
RECURSIVE Ascending(_)
Ascending(S) == IF S = {} THEN <<>>
                ELSE LET x == CHOOSE a \in S : \A b \in S : a <= b
                     IN  <<x>> \o Ascending(S \ {x})

\* parse_excel_schedule: steps 2 to 5
DetectTimeBlocks ==
    /\ pc = "blocks"
    /\ LET data_start_row == header_row + 1
           et == find_et_column(ws, header_row)
           detected == IF et # 0
                       THEN detect_time_blocks(ws, et, data_start_row, MaxBlockScanRows)
                       ELSE <<>>
       IN  /\ et_column' = et
           /\ IF Len(detected) >= 2
              THEN /\ rows_per_block' = detected[2][1] - detected[1][1]
                   /\ time_blocks' = detected
              ELSE /\ rows_per_block' = DefaultRowsPerBlock
                   /\ time_blocks' = DefaultTimeBlocks(data_start_row)
    /\ day_schedules' = [day \in {day_columns[c] : c \in DOMAIN day_columns} |-> <<>>]
    /\ todo' = Ascending(DOMAIN day_columns)
    /\ pc' = "columns"
    /\ UNCHANGED <<excel_data, ws, header_row, day_columns, columns, schedule, saved,
                   raised, exit_code>>

\* parse_excel_schedule: one iteration of the step-6 loop (steps 6, 7 and 8)
ProcessDayColumn ==
    /\ pc = "columns"
    /\ todo # <<>>
    /\ LET col_idx == Head(todo)
           day_name == day_columns[col_idx]
           day_cells == CollectDayCells(ws, col_idx, time_blocks, rows_per_block)
           joined_shows == JoinContinuations(day_cells, 1, time_blocks, rows_per_block)
           allocated == AllocateTimes(joined_shows, BlockKeys(joined_shows))
       IN  /\ columns' = (col_idx :> [day_cells |-> day_cells, joined_shows |-> joined_shows,
                                      allocated |-> allocated]) @@ columns
           /\ day_schedules' = [day_schedules EXCEPT
                                   ![day_name] = @ \o [k \in 1..Len(allocated) |-> allocated[k].slot]]
    /\ todo' = Tail(todo)
    /\ UNCHANGED <<pc, excel_data, ws, header_row, day_columns, et_column, time_blocks,
                   rows_per_block, schedule, saved, raised, exit_code>>

\* parse_excel_schedule: step 9 and the final assembly, returning to main
BuildSchedule ==
    /\ pc = "columns"
    /\ todo = <<>>
    /\ schedule' = schedule_data(extract_date_range(ws), BuildDays(day_schedules, 1))
    /\ pc' = "save"
    /\ UNCHANGED <<excel_data, saved, raised, exit_code>>
    /\ UNCHANGED parse_vars

\* main, step 4: the except branch
HandleParseError ==
    /\ pc = "except"
    /\ FailWith("Could not parse schedule: " \o raised)
    /\ UNCHANGED <<excel_data, raised>>
    /\ UNCHANGED parse_vars

\* main, step 5: save the parsed schedule and return
SaveSchedule ==
    /\ pc = "save"
    /\ \E written \in BOOLEAN :
          /\ save_schedule(schedule, written)
          /\ exit_code' = IF written THEN 0 ELSE 1
    /\ pc' = "done"
    /\ UNCHANGED <<excel_data, schedule, raised>>
    /\ UNCHANGED parse_vars

Next ==
    \/ FetchPage
    \/ FindExcelUrl
    \/ DownloadExcel(Sheets)
    \/ FindHeaderRow
    \/ DetectTimeBlocks
    \/ ProcessDayColumn
    \/ BuildSchedule
    \/ HandleParseError
    \/ SaveSchedule

Spec == Init /\ [][Next]_vars

\* main() run on the sheets of DurationSheets
NextDuration ==
    \/ FetchPage
    \/ FindExcelUrl
    \/ DownloadExcel(DurationSheets)
    \/ FindHeaderRow
    \/ DetectTimeBlocks
    \/ ProcessDayColumn
    \/ BuildSchedule
    \/ HandleParseError
    \/ SaveSchedule

SpecDuration == Init /\ [][NextDuration]_vars

\* main() run on the sheets of DateSheets
NextDates ==
    \/ FetchPage
    \/ FindExcelUrl
    \/ DownloadExcel(DateSheets)
    \/ FindHeaderRow
    \/ DetectTimeBlocks
    \/ ProcessDayColumn
    \/ BuildSchedule
    \/ HandleParseError
    \/ SaveSchedule

SpecDates == Init /\ [][NextDates]_vars

-----------------------------------------------------------------------------
(* Properties                                                              *)

\* parse_excel_schedule has run past step 4
Detected == \/ pc \in {"columns", "save"}
            \/ (pc = "done" /\ excel_data.kind = "xlsx" /\ raised = "")

\* parse_excel_schedule has returned its schedule to main
Parsed == Detected /\ pc # "columns"

\* C1: a ShowEntry never crosses a time-block boundary: every cell the
\* joiner puts into an entry was collected under the block index of the
\* entry's first cell, whatever the spacing of the anchors.
C1_NoJoinAcrossBlocks ==
    \A c \in DOMAIN columns :
        \A n \in 1..Len(columns[c].joined_shows) :
            LET e == columns[c].joined_shows[n]
            IN  \A k \in e.first..e.last : columns[c].day_cells[k].block_idx = e.block_idx

\* the day names of the returned schedule list, in order
ScheduleDays == [k \in 1..Len(schedule.schedule) |-> schedule.schedule[k].day]

HeaderDays == {DayIn(Cell(ws, header_row, c).value) : c \in 1..max_column(ws)} \ {""}

IsWeekDay(d) == d \in HeaderDays

IsThemeShow(show_name) == str_startswith(show_name, "[THEME] ")

\* the positions of the entries of block b among the entries of column c
BlockEntries(c, b) ==
    LET e == columns[c].joined_shows
        OfBlock(k) == e[k].block_idx = b
    IN  SelectSeq([k \in 1..Len(e) |-> k], OfBlock)

\* C3: theme-classified entries always carry duration 0 and never advance
\* the time cursor of their block: the entry after a theme header in the same
\* block receives the time of the theme header, and a block with base hour 8
\* whose entries are the theme header "Birthday Salute", "Dragnet" and
\* "Sam Spade" is given the times 8:00 AM, 8:00 AM, 8:30 AM.
C3_ThemeKeepsCursor ==
    \A c \in DOMAIN columns :
        LET a == columns[c].allocated
            e == columns[c].joined_shows
        IN  /\ [k \in 1..Len(a) |-> a[k].slot.show] = [k \in 1..Len(e) |-> e[k].show]
            /\ \A k \in 1..Len(a) :
                  IsThemeShow(e[k].show) =>
                      /\ a[k].duration = 0
                      /\ (k < Len(a) /\ e[k + 1].block_idx = e[k].block_idx)
                            => a[k + 1].slot.time = a[k].slot.time
            /\ \A b \in {e[k].block_idx : k \in 1..Len(e)} :
                  LET ks == BlockEntries(c, b)
                  IN  (/\ [n \in 1..Len(ks) |-> e[ks[n]].show]
                             = <<"[THEME] Birthday Salute", "Dragnet", "Sam Spade">>
                       /\ e[ks[1]].base_hour = 8)
                      => [n \in 1..Len(ks) |-> a[ks[n]].slot.time]
                             = <<"8:00 AM", "8:00 AM", "8:30 AM">>

\* the block of the scenario has been allocated
C3_Witness ==
    \E c \in DOMAIN columns :
        LET a == columns[c].allocated
            e == columns[c].joined_shows
        IN  \E k \in 1..(Len(e) - 2) :
                /\ e[k].show = "[THEME] Birthday Salute" /\ e[k].base_hour = 8
                /\ e[k + 1].show = "Dragnet" /\ e[k + 1].block_idx = e[k].block_idx
                /\ e[k + 2].show = "Sam Spade" /\ e[k + 2].block_idx = e[k].block_idx
                /\ a[k + 1].slot.time = "8:00 AM"
                /\ a[k + 2].slot.time = "8:30 AM"

\* formatting then re-parsing gives back the minute of the day
RoundTrip == \A hour \in 0..23 : \A minute \in 0..59 :
                 parse_time_for_sort(format_time_et(hour, minute)) = hour * 60 + minute

\* the strings format_time_et produces for the times of a day
DisplayTimes == {format_time_et(hour, minute) : hour \in 0..23, minute \in 0..59}

\* C4: every day's slot list is sorted non-decreasing by minute-of-day: the
\* slot times are display strings of times of the day, they are in
\* non-decreasing order of the minutes parsed back from them, and the minutes
\* parsed back from a display string are those it was formatted from.
C4_SortedByMinuteOfDay ==
    /\ RoundTrip
    /\ Parsed =>
          \A d \in 1..Len(schedule.schedule) :
              LET slots == schedule.schedule[d].slots
              IN  /\ \A k \in 1..Len(slots) : slots[k].time \in DisplayTimes
                  /\ \A k \in 1..(Len(slots) - 1) :
                        parse_time_for_sort(slots[k].time) <= parse_time_for_sort(slots[k + 1].time)

\* the sort moved a slot: a day whose slots were appended out of time order
C4_Witness ==
    /\ Parsed
    /\ \E d \in 1..Len(schedule.schedule) :
          LET slots == schedule.schedule[d].slots
          IN  /\ Len(slots) >= 2
              /\ slots # day_schedules[schedule.schedule[d].day]
              /\ parse_time_for_sort(slots[1].time) < parse_time_for_sort(slots[Len(slots)].time)

\* one rule of the duration table: the name starts with one of `starts` or
\* contains one of `has`
Rule(starts, has, minutes) == [starts |-> starts, has |-> has, minutes |-> minutes]

RuleMatches(rule, lower) ==
    \/ \E x \in rule.starts : str_startswith(lower, x)
    \/ \E x \in rule.has : str_contains(lower, x)

MarkerRules ==
    << Rule({}, {"(1 hr)", "(60 min)", "(1 hour)"}, 60),
       Rule({}, {"(1/2 hr)", "(30 min)"}, 30),
       Rule({}, {"(15 min)"}, 15),
       Rule({"two from "}, {"two episodes"}, 60),
       Rule({}, {"two 1/2 hour"}, 60),
       Rule({}, {"lux radio", "screen director", "theatre guild", "screen guild"}, 60) >>

ThemeRule == Rule({"[theme]"}, {}, 0)

\* the minutes of the first rule of the table that matches, 30 when none does
RECURSIVE FirstMatch(_, _)
FirstMatch(rules, lower) ==
    IF rules = <<>> THEN 30
    ELSE IF RuleMatches(Head(rules), lower) THEN Head(rules).minutes
    ELSE FirstMatch(Tail(rules), lower)

\* C5 as stated: every joined name gets the minutes of the first matching
\* rule of the table markers, "two from"/"two episodes", "two 1/2 hour", known
\* 60-minute title, theme header, in that order, and 30 when none matches.
C5_ThemeRuleSeventh ==
    \A c \in DOMAIN columns :
        \A k \in 1..Len(columns[c].allocated) :
            columns[c].allocated[k].duration
                = FirstMatch(Append(MarkerRules, ThemeRule), str_lower(columns[c].allocated[k].slot.show))

\* C5 as amended: a name whose lowercased text starts with "[theme]" gets 0
\* before any other rule is consulted; the other rules follow in the stated
\* order, each consulted only when every earlier one fails, and 30 is the
\* default.
C5_ThemeRuleFirst ==
    \A c \in DOMAIN columns :
        \A k \in 1..Len(columns[c].allocated) :
            columns[c].allocated[k].duration
                = FirstMatch(<<ThemeRule>> \o MarkerRules, str_lower(columns[c].allocated[k].slot.show))

\* the theme rule decided the duration of a name with a marker, and a
\* marker that of an otherwise unmatched title
C5_Witness ==
    /\ \E c \in DOMAIN columns :
          LET a == columns[c].allocated
          IN  Len(a) = 1 /\ a[1].slot.show = "[THEME] Birthday Salute (1 hr)" /\ a[1].duration = 0
    /\ \E c \in DOMAIN columns :
          LET a == columns[c].allocated
          IN  Len(a) = 1 /\ a[1].slot.show = "Suspense (15 min)" /\ a[1].duration = 15

\* the cell values of w that hold a day name
HoldsDayName(w, r, c) ==
    \E d \in {"monday", "tuesday", "wednesday", "thursday", "friday", "saturday", "sunday"} :
        str_contains(str_lower(Cell(w, r, c).value), d)

\* no row among the first 20 has five cells holding a day name
NoHeaderRow(w) ==
    \A r \in 1..20 : Cardinality({c \in 1..max_column(w) : HoldsDayName(w, r, c)}) < 5

SevenEmptyDays(sch) ==
    /\ [k \in 1..Len(sch.schedule) |-> sch.schedule[k].day] = WEEK
    /\ \A k \in 1..Len(sch.schedule) : sch.schedule[k].slots = <<>>

HeaderNotFound == "Could not find header row with day names (MONDAY, TUESDAY, etc.)"

\* C6: when no row among the first 20 qualifies as a header the parse fails
\* with the header-not-found error and returns no schedule; main then passes
\* the default schedule of seven empty days with an error field to
\* save_schedule and returns 1.
C6_HeaderNotFoundIsFatal ==
    (/\ excel_data.kind = "xlsx"
     /\ pc \notin {"parse"}
     /\ NoHeaderRow(excel_data.sheet))
    => /\ pc \in {"except", "done"}
       /\ raised = HeaderNotFound
       /\ header_row = 0 /\ columns = <<>>
       /\ pc = "except" => saved = <<>> /\ exit_code = -1
       /\ pc = "done" =>
             /\ exit_code = 1
             /\ Len(saved) = 1 /\ saved[1].schedule = schedule
             /\ SevenEmptyDays(schedule)
             /\ "error" \in DOMAIN schedule
             /\ schedule.error = "Could not parse schedule: " \o HeaderNotFound

\* main has returned 1 for a sheet whose only header row is below row 20
C6_Witness ==
    /\ pc = "done" /\ excel_data.kind = "xlsx"
    /\ NoHeaderRow(excel_data.sheet)
    /\ \E r \in 21..max_row(excel_data.sheet) :
          Cardinality({c \in 1..max_column(excel_data.sheet) : HoldsDayName(excel_data.sheet, r, c)}) >= 5
    /\ exit_code = 1

\* the text starts with one of the connector phrases
StartsWithConnector(text) ==
    \E w \in {"from ", "with ", "starring ", "featuring ", "hosted by ", "and "} :
        str_startswith(str_strip(str_lower(text)), w)

\* the entries of column c carry the names `shows`
EntriesAre(c, shows) ==
    [n \in 1..Len(columns[c].joined_shows) |-> columns[c].joined_shows[n].show] = shows

\* C7: of two successive cells collected under one block, a second one that
\* starts with a connector phrase is absorbed into the entry of the first, and
\* a second one that holds a date and starts with no connector phrase begins
\* an entry of its own; the cells "The Shadow", "starring Orson Welles",
\* "12-25-1945" of one block give the entries "The Shadow starring Orson
\* Welles" and "12-25-1945".
C7_ConnectorJoinsDateDoesNot ==
    \A c \in DOMAIN columns :
        LET cells == columns[c].day_cells
            e == columns[c].joined_shows
            Begins(k) == \E n \in 1..Len(e) : e[n].first = k
        IN  /\ \A k \in 2..Len(cells) :
                  cells[k].block_idx = cells[k - 1].block_idx =>
                      /\ StartsWithConnector(cells[k].value) => ~Begins(k)
                      /\ (has_date_pattern(cells[k].value) /\ ~StartsWithConnector(cells[k].value))
                            => Begins(k)
            /\ (/\ [k \in 1..Len(cells) |-> cells[k].value]
                      = <<"The Shadow", "starring Orson Welles", "12-25-1945">>
                /\ \A k \in 1..Len(cells) : cells[k].block_idx = cells[1].block_idx)
               => EntriesAre(c, <<"The Shadow starring Orson Welles", "12-25-1945">>)

\* the header row has been looked for and found
HeaderFound == header_row # 0

\* C8: the row taken for the header holds at least five distinct day names,
\* it is the first such row from the top within the scan limit, and
\* day_columns maps each of its matching columns to the capitalized day name.
C8_FiveDistinctDays ==
    HeaderFound =>
        /\ Cardinality({day_columns[c] : c \in DOMAIN day_columns}) >= 5
        /\ header_row \in 1..20
        /\ \A r \in 1..(header_row - 1) :
              Cardinality({DayIn(Cell(ws, r, c).value) : c \in 1..max_column(ws)} \ {""}) < 5
        /\ DOMAIN day_columns = {c \in 1..max_column(ws) : HoldsDayName(ws, header_row, c)}
        /\ \A c \in DOMAIN day_columns :
              /\ day_columns[c] \in RangeOf(WEEK)
              /\ str_contains(str_lower(Cell(ws, header_row, c).value), str_lower(day_columns[c]))

\* one of the failures of main's pipeline has happened
Failed == \/ pc = "done" /\ excel_data.kind = "none"
          \/ raised # ""

\* C9: every failure of the pipeline ends with the default schedule of seven
\* empty days and an error string passed to save_schedule and exit code 1,
\* a raised exception being caught by main; exit code 0 is returned only
\* after a parsed schedule was saved successfully.
C9_FailuresEndInDefaultSchedule ==
    /\ pc = "except" => raised # "" /\ ENABLED HandleParseError
    /\ raised # "" => pc \in {"except", "done"}
    /\ pc = "done" =>
          /\ exit_code \in {0, 1}
          /\ Len(saved) = 1 /\ saved[1].schedule = schedule
          /\ Failed =>
                /\ exit_code = 1
                /\ SevenEmptyDays(schedule)
                /\ "error" \in DOMAIN schedule /\ schedule.error # ""
          /\ exit_code = 0 =>
                /\ excel_data.kind = "xlsx" /\ raised = ""
                /\ saved[1].written
                /\ "error" \notin DOMAIN schedule
                /\ schedule.schedule = BuildDays(day_schedules, 1)
    /\ pc # "done" => exit_code = -1

\* a parse error was caught and main returned 1
C9_Witness ==
    /\ pc = "done" /\ raised # "" /\ exit_code = 1
    /\ schedule.error = "Could not parse schedule: " \o raised

\* the rows of the ET column, from the first data row on, that hold a time
Anchors ==
    {r \in (header_row + 1)..(header_row + 100) :
        /\ Cell(ws, r, et_column).value # ""
        /\ parse_time_value_to_hour(Cell(ws, r, et_column).value) # -1}

\* the header row has a cell that reads ET or holds EASTERN
EtLocated ==
    \E c \in 1..max_column(ws) :
        \/ str_strip(str_upper(Cell(ws, header_row, c).value)) = "ET"
        \/ str_contains(str_upper(Cell(ws, header_row, c).value), "EASTERN")

SyntheticBlocks ==
    /\ rows_per_block = 5
    /\ Len(time_blocks) = 12
    /\ \A i \in 0..11 : time_blocks[i + 1] = <<header_row + 1 + 5 * i, 2 * i>>

\* C10: when the ET column is not located, or fewer than two anchors are
\* detected in it, the time blocks are the synthetic 12 blocks of 5 rows,
\* block i at row data_start_row + 5*i with base hour 2*i; otherwise they are
\* the detected anchors, in row order, and rows-per-block is the gap between
\* the first two.
C10_DefaultBlocks ==
    Detected =>
        /\ (et_column = 0) = ~EtLocated
        /\ IF et_column = 0 \/ Cardinality(Anchors) < 2
           THEN SyntheticBlocks
           ELSE /\ {time_blocks[i][1] : i \in 1..Len(time_blocks)} = Anchors
                /\ Len(time_blocks) = Cardinality(Anchors)
                /\ \A i \in 1..Len(time_blocks) :
                      /\ i > 1 => time_blocks[i - 1][1] < time_blocks[i][1]
                      /\ time_blocks[i][2]
                            = parse_time_value_to_hour(Cell(ws, time_blocks[i][1], et_column).value)
                /\ rows_per_block = time_blocks[2][1] - time_blocks[1][1]

\* exactly one anchor was detected in a located ET column
C10_Witness ==
    /\ Detected /\ et_column # 0
    /\ Cardinality(Anchors) = 1
    /\ SyntheticBlocks

\* the text of the cells joined into entry n of column c
JoinedText(c, n) ==
    LET e == columns[c].joined_shows[n]
    IN  JoinParts(columns[c].day_cells, e.first, e.last + 1)

\* the conditions under which the classifier makes entry n a theme header
Reclassified(c, n) ==
    /\ columns[c].day_cells[columns[c].joined_shows[n].first].bold
    /\ ~has_date_pattern(JoinedText(c, n))
    /\ \E kw \in {"birthday", "marathon", "when radio was", "tribute",
                  "anniversary", "salute", "celebration", "memorial"} :
          str_contains(str_lower(JoinedText(c, n)), kw)

\* C11: an entry gets duration 0 only if its first cell was bold, its joined
\* text has no date-like pattern and it holds a theme-vocabulary word; every
\* other entry gets 15, 30 or 60 minutes.
C11_ZeroOnlyForThemeHeaders ==
    \A c \in DOMAIN columns :
        \A n \in 1..Len(columns[c].allocated) :
            /\ columns[c].allocated[n].duration = 0 => Reclassified(c, n)
            /\ ~Reclassified(c, n) => columns[c].allocated[n].duration \in {15, 30, 60}

\* C12: every time block, detected or synthetic, has a base hour in 0..23,
\* and the blocks are in strictly increasing order of anchor row, whatever the
\* ET column holds.
C12_BaseHoursOfTheDay ==
    Detected =>
        \A i \in 1..Len(time_blocks) :
            /\ time_blocks[i][2] \in 0..23
            /\ i > 1 => time_blocks[i - 1][1] < time_blocks[i][1]

\* the minutes of the entries of column c before entry n that are of block b
RECURSIVE MinutesBefore(_, _, _)
MinutesBefore(c, n, b) ==
    IF n <= 1 THEN 0
    ELSE MinutesBefore(c, n - 1, b)
         + (IF columns[c].joined_shows[n - 1].block_idx = b
            THEN columns[c].allocated[n - 1].duration ELSE 0)

\* the display time of a cursor, taken modulo 24 hours
DisplayTime(cursor) ==
    LET minute_of_day == cursor % (24 * 60)
        hour == minute_of_day \div 60
        minute == minute_of_day % 60
        hour12 == IF hour % 12 = 0 THEN 12 ELSE hour % 12
        tens == minute \div 10
        ones == minute % 10
        D(k) == SubSeq("0123456789", k + 1, k + 1)
    IN  (IF hour12 >= 10 THEN "1" \o D(hour12 - 10) ELSE D(hour12))
        \o ":" \o D(tens) \o D(ones) \o (IF hour < 12 THEN " AM" ELSE " PM")

\* what the visited columns of a day have appended to it, in column order
RECURSIVE SlotsOfDay(_, _)
SlotsOfDay(day, cols) ==
    IF cols = {} THEN <<>>
    ELSE LET c == CHOOSE x \in cols : \A y \in cols : y <= x
             a == columns[c].allocated
         IN  SlotsOfDay(day, cols \ {c})
             \o (IF day_columns[c] = day THEN [k \in 1..Len(a) |-> a[k].slot] ELSE <<>>)

\* C13: in every day column, the entries are allocated in document order and
\* an entry gets the display time of base_hour*60 plus the durations of the
\* earlier entries of its own block, modulo 24 hours, whatever the other
\* blocks and the other columns hold; a day's slots are those of its columns.
C13_CursorPerBlock ==
    /\ \A c \in DOMAIN columns :
          LET a == columns[c].allocated
              e == columns[c].joined_shows
          IN  /\ Len(a) = Len(e)
              /\ \A n \in 1..Len(e) :
                    /\ a[n].slot.show = e[n].show
                    /\ a[n].slot.time
                          = DisplayTime(e[n].base_hour * 60 + MinutesBefore(c, n, e[n].block_idx))
    /\ (DOMAIN columns # {}) =>
          \A day \in DOMAIN day_schedules : day_schedules[day] = SlotsOfDay(day, DOMAIN columns)

\* a column with entries in two blocks, one of them after an entry of a
\* positive duration in its block
C13_Witness ==
    \E c \in DOMAIN columns :
        LET a == columns[c].allocated
            e == columns[c].joined_shows
        IN  \E n \in 2..Len(e) : \E m \in 1..Len(e) :
                /\ e[n - 1].block_idx = e[n].block_idx
                /\ a[n - 1].duration > 0
                /\ a[n].slot.time # a[n - 1].slot.time
                /\ e[m].block_idx # e[n].block_idx
                /\ e[m].base_hour # e[n].base_hour

\* the texts that hold a long-form range, and those that hold two numeric dates
LongFormTexts == {"Jan 19th - Jan 25th, 2026", "January 26 - February 1, 2026",
                  "Week 2/2/2026 - 2/8/2026 (Feb 2nd - Feb 8th, 2027)"}

TwoNumericTexts == {"2/2/2026 - 2/8/2026", "3-9-26 - 3-15-26",
                    "Week 2/2/2026 - 2/8/2026 (Feb 2nd - Feb 8th, 2027)"}

\* the week a text stands for, by the pattern named
LongFormWeek(text) ==
    CASE text = "Jan 19th - Jan 25th, 2026" -> <<"2026-01-19", "2026-01-25">>
      [] text = "January 26 - February 1, 2026" -> <<"2026-01-26", "2026-02-01">>
      [] text = "Week 2/2/2026 - 2/8/2026 (Feb 2nd - Feb 8th, 2027)" -> <<"2027-02-02", "2027-02-08">>

NumericWeek(text) ==
    CASE text = "2/2/2026 - 2/8/2026" -> <<"2026-02-02", "2026-02-08">>
      [] text = "3-9-26 - 3-15-26" -> <<"2026-03-09", "2026-03-15">>
      [] text = "Week 2/2/2026 - 2/8/2026 (Feb 2nd - Feb 8th, 2027)" -> <<"2026-02-02", "2026-02-08">>

\* the cells of the first ten rows whose text is one of texts
TitleCells(texts) == {p \in DOMAIN ws : p[1] <= 10 /\ ws[p].value \in texts}

RowMajorBefore(p, q) == p[1] < q[1] \/ (p[1] = q[1] /\ p[2] <= q[2])

ReturnedWeek == <<schedule.week_start, schedule.week_end>>

CurrentWeek == <<"this week's Monday", "this week's Sunday">>

\* C14 as stated: when a cell of the first ten rows holds a long-form range
\* the returned week comes from a long-form match, whatever cells with two
\* numeric dates there are; the current week is returned only when no cell of
\* the first ten rows matches either pattern.
C14_LongFormBeforeNumeric ==
    Parsed =>
        /\ TitleCells(LongFormTexts) # {}
              => ReturnedWeek \in {LongFormWeek(ws[p].value) : p \in TitleCells(LongFormTexts)}
        /\ ReturnedWeek = CurrentWeek => TitleCells(LongFormTexts \cup TwoNumericTexts) = {}

\* C14 as amended: the cells of the first ten rows are read row by row, left
\* to right, and the first cell that matches either pattern decides: its
\* long-form match if it has one, else its first two numeric dates; the
\* current week is returned only when no cell of the first ten rows matches
\* either pattern.
C14_FirstMatchingCellDecides ==
    Parsed =>
        LET hits == TitleCells(LongFormTexts \cup TwoNumericTexts)
        IN  IF hits = {} THEN ReturnedWeek = CurrentWeek
            ELSE LET p == CHOOSE x \in hits : \A y \in hits : RowMajorBefore(x, y)
                 IN  ReturnedWeek = IF ws[p].value \in LongFormTexts
                                    THEN LongFormWeek(ws[p].value)
                                    ELSE NumericWeek(ws[p].value)

\* a cell with two numeric dates comes before a long-form cell, and decides
C14_Witness ==
    /\ Parsed
    /\ \E p \in TitleCells(TwoNumericTexts \ LongFormTexts) :
          /\ \E q \in TitleCells(LongFormTexts) : RowMajorBefore(p, q)
          /\ \A q \in TitleCells(LongFormTexts \cup TwoNumericTexts) : RowMajorBefore(p, q)
          /\ ReturnedWeek = NumericWeek(ws[p].value)

\* the cell of column c in row r holds a text that is no placeholder
HoldsShowText(c, r) ==
    str_lower(str_strip(Cell(ws, r, c).value)) \notin {"", "none", "n/a", "-"}

\* the rows from the first anchor to the end of the last block
BlockRows ==
    time_blocks[1][1] .. (time_blocks[Len(time_blocks)][1] + rows_per_block - 1)

\* C15: in every day column, each cell with a show text between the first
\* anchor row and the end of the last block is collected exactly once and
\* lies in exactly one entry, and the column gives one slot for each entry,
\* whether the anchors are regularly spaced or not.
C15_EveryCellOnce ==
    \A c \in DOMAIN columns :
        LET cells == columns[c].day_cells
            e == columns[c].joined_shows
        IN  /\ \A r \in BlockRows :
                  HoldsShowText(c, r) =>
                      /\ Cardinality({k \in 1..Len(cells) : cells[k].row = r}) = 1
                      /\ Cardinality({n \in 1..Len(e) :
                             \E k \in e[n].first..e[n].last : cells[k].row = r}) = 1
            /\ \A k \in 1..Len(cells) :
                  Cardinality({n \in 1..Len(e) : e[n].first <= k /\ k <= e[n].last}) = 1
            /\ Len(columns[c].allocated) = Len(e)

=============================================================================
